---- MODULE Spec2Model ----
(***************************************************************************)
(* Pattern detection (app/pattern_detection.py), news/pattern correlation  *)
(* (app/correlation_node.py) and the node pipeline around them             *)
(* (app/graph.py, app/sentiment_node.py, app/report_node.py).              *)
(*                                                                         *)
(* Python floats are modelled as exact rationals [n, d] with d > 0; a      *)
(* value stored in a record is kept in lowest terms (Norm).  A date string *)
(* is modelled by the strptime format it matches and the calendar day it   *)
(* denotes (an ordinal day number); a string that matches no format has    *)
(* fmt = "other", the empty string has fmt = "".  The free-text field      *)
(* `notes` of a PatternSignal is left out.                                 *)
(***************************************************************************)
EXTENDS Integers, Sequences, FiniteSets, TLC

VARIABLES articles, sentiments, prices, patterns, correlations,
          max_lag_days, pc,
          report,       \* value of the key report_markdown
          keys,         \* keys present in the current AgentState dict
          input_keys,   \* keys of the dict object handed to the last node, after its call
          trace,        \* nodes that have completed, in order
          llm_replies   \* what the LLM answered to the calls of the sentiment node

vars == <<articles, sentiments, prices, patterns, correlations,
          max_lag_days, pc, report, keys, input_keys, trace, llm_replies>>

\* the part of the state that only the graph nodes touch
node_vars == <<report, keys, input_keys, trace, llm_replies>>

(***************************************************************************)
(* Bounds                                                                  *)
(***************************************************************************)
MaxBars == 3
MaxSentiments == 2
MaxPatterns == 2
MaxArticles == 2

(***************************************************************************)
(* Float arithmetic, as exact rationals                                    *)
(***************************************************************************)
RECURSIVE GCD(_, _)
GCD(a, b) == IF b = 0 THEN a ELSE GCD(b, a % b)

IAbs(x) == IF x < 0 THEN -x ELSE x

Rat(n, d) ==
    LET s == IF d < 0 THEN -1 ELSE 1
        g == GCD(IAbs(n), IAbs(d))
    IN  [n |-> (s * n) \div g, d |-> (s * d) \div g]

RInt(k) == [n |-> k, d |-> 1]
Norm(x) == Rat(x.n, x.d)
RMul(x, y) == [n |-> x.n * y.n, d |-> x.d * y.d]
RSub(x, y) == [n |-> x.n * y.d - y.n * x.d, d |-> x.d * y.d]
REq(x, y) == x.n * y.d = y.n * x.d
RLe(x, y) == x.n * y.d <= y.n * x.d
RLt(x, y) == x.n * y.d < y.n * x.d
RAbs(x) == [n |-> IAbs(x.n), d |-> x.d]
\* Python's min(a, b) returns b only when b < a; max(a, b) returns b only when b > a
RMin(x, y) == IF RLt(y, x) THEN y ELSE x
RMax(x, y) == IF RLt(x, y) THEN y ELSE x

(***************************************************************************)
(* Date strings                                                            *)
(***************************************************************************)
FmtDate == "%Y-%m-%d"
FmtDateTimeZ == "%Y-%m-%dT%H:%M:%SZ"
FmtDateTime == "%Y-%m-%dT%H:%M:%S"

DateStr(fmt, day) == [fmt |-> fmt, day |-> day]
EmptyStr == [fmt |-> "", day |-> 0]

NoneDate == [ok |-> FALSE, day |-> 0]
SomeDate(day) == [ok |-> TRUE, day |-> day]

\* datetime.strptime(s, fmt).date(): succeeds only when s is written in fmt
strptime(s, fmt) == IF s.fmt = fmt THEN SomeDate(s.day) ELSE NoneDate

formats == <<FmtDate, FmtDateTimeZ, FmtDateTime>>

RECURSIVE TryFormats(_, _)
TryFormats(s, i) ==
    IF i > Len(formats) THEN NoneDate
    ELSE IF strptime(s, formats[i]).ok THEN strptime(s, formats[i])
    ELSE TryFormats(s, i + 1)

_parse_any_date(s) == IF s = EmptyStr THEN NoneDate ELSE TryFormats(s, 1)

(***************************************************************************)
(* pattern_detection.py                                                    *)
(***************************************************************************)
bullish_threshold == Rat(5, 100)
bearish_threshold == Rat(-5, 100)
swing_threshold == Rat(8, 100)
sideways_confidence == Rat(6, 10)
trend_scale == RInt(5)
swing_scale == RInt(4)
One == RInt(1)
Zero == RInt(0)

_compute_return(ps) ==
    IF Len(ps) < 2 THEN Zero
    ELSE LET start == ps[1].close
             end == ps[Len(ps)].close
         IN  IF start = 0 THEN Zero
             ELSE Rat(end - start, start)

\* closes.index(v): the first position holding v
IndexOf(closes, v) ==
    CHOOSE i \in 1..Len(closes) :
        /\ closes[i] = v
        /\ \A j \in 1..(i - 1) : closes[j] # v

SeqMin(closes) == CHOOSE v \in {closes[i] : i \in 1..Len(closes)} :
                      \A i \in 1..Len(closes) : v <= closes[i]
SeqMax(closes) == CHOOSE v \in {closes[i] : i \in 1..Len(closes)} :
                      \A i \in 1..Len(closes) : v >= closes[i]

\* (min_idx, max_idx); 0 stands for None
_find_local_extrema(ps) ==
    IF ps = <<>> THEN <<0, 0>>
    ELSE LET closes == [i \in 1..Len(ps) |-> ps[i].close]
         IN  <<IndexOf(closes, SeqMin(closes)), IndexOf(closes, SeqMax(closes))>>

PatternSignal(name, label, start_date, end_date, confidence, direction) ==
    [name |-> name, label |-> label, start_date |-> start_date,
     end_date |-> end_date, confidence |-> confidence, direction |-> direction]

\* 1) Trend / breakout pattern
TrendSignals(ps) ==
    LET total_ret == _compute_return(ps)
        start_date == ps[1].date
        end_date == ps[Len(ps)].date
    IN  IF RLe(bullish_threshold, total_ret)
        THEN <<PatternSignal("bullish_breakout", "Bullish Breakout / Uptrend",
                             start_date, end_date,
                             Norm(RMin(One, RMul(RAbs(total_ret), trend_scale))),
                             "bullish")>>
        ELSE IF RLe(total_ret, bearish_threshold)
        THEN <<PatternSignal("bearish_breakdown", "Bearish Breakdown / Downtrend",
                             start_date, end_date,
                             Norm(RMin(One, RMul(RAbs(total_ret), trend_scale))),
                             "bearish")>>
        ELSE <<PatternSignal("sideways_range", "Sideways / Range-Bound",
                             start_date, end_date, sideways_confidence,
                             "neutral")>>

\* the division on line 108 raises ZeroDivisionError when the low close is 0
SwingRaises(ps) ==
    LET ext == _find_local_extrema(ps)
    IN  /\ ext[1] # 0 /\ ext[2] # 0 /\ ext[1] # ext[2]
        /\ ps[ext[1]].close = 0

SwingDates(low_bar, high_bar) == <<low_bar.date, high_bar.date>>

\* 2) Swing pattern based on local min/max (evaluated only when SwingRaises is false)
SwingSignals(ps) ==
    LET ext == _find_local_extrema(ps)
        min_idx == ext[1]
        max_idx == ext[2]
    IN  IF min_idx # 0 /\ max_idx # 0 /\ min_idx # max_idx
        THEN LET low_bar == ps[min_idx]
                 high_bar == ps[max_idx]
                 swing_ret == Rat(high_bar.close - low_bar.close, low_bar.close)
             IN  IF RLt(swing_threshold, swing_ret)
                 THEN LET swing_name == IF min_idx < max_idx THEN "strong_up_swing"
                                        ELSE "strong_down_swing"
                          direction == IF swing_name = "strong_up_swing"
                                       THEN "bullish" ELSE "bearish"
                      IN  <<PatternSignal(swing_name, "Strong Price Swing",
                                          SwingDates(low_bar, high_bar)[1],
                                          SwingDates(low_bar, high_bar)[2],
                                          Norm(RMin(One, RMul(RAbs(swing_ret), swing_scale))),
                                          direction)>>
                 ELSE <<>>
        ELSE <<>>

\* variant: the swing signal is appended before the trend signal
AppendSignalsSwingFirst(trend, swing) == swing \o trend

AppendSignals(trend, swing) == trend \o swing

\* the outcome of a call: the returned list, or the exception that escaped
\* variant: the short-series guard lets a single bar through
detect_patterns_guard_below_one(ps) ==
    IF Len(ps) < 1 THEN [raised |-> FALSE, value |-> <<>>]
    ELSE IF SwingRaises(ps) THEN [raised |-> TRUE, value |-> <<>>]
    ELSE [raised |-> FALSE,
          value |-> AppendSignals(TrendSignals(ps), SwingSignals(ps))]

detect_patterns(ps) ==
    IF Len(ps) < 2 THEN [raised |-> FALSE, value |-> <<>>]
    ELSE IF SwingRaises(ps) THEN [raised |-> TRUE, value |-> <<>>]
    ELSE [raised |-> FALSE,
          value |-> AppendSignals(TrendSignals(ps), SwingSignals(ps))]

(***************************************************************************)
(* Specification of detect_patterns over bounded price series              *)
(***************************************************************************)
Closes == {0, 95, 96, 100, 104, 105, 108, 109, 110, 121}

\* bars of a series carry ascending, unique dates in the price source's format
PriceSeries ==
    UNION {[1..n -> Closes] : n \in 0..MaxBars}

BarsOf(cs) ==
    [i \in 1..Len(cs) |-> [date |-> DateStr(FmtDate, 9 + i),
                           close |-> cs[i]]]

InitDetect ==
    /\ prices \in {BarsOf(cs) : cs \in PriceSeries}
    /\ patterns = <<>>
    /\ articles = <<>>
    /\ sentiments = <<>>
    /\ correlations = <<>>
    /\ max_lag_days = 7
    /\ pc = "detect"
    /\ report = <<>>
    /\ keys = {}
    /\ input_keys = {}
    /\ trace = <<>>
    /\ llm_replies = <<>>

DetectPatterns ==
    /\ pc = "detect"
    /\ LET r == detect_patterns(prices)
       IN  /\ patterns' = r.value
           /\ pc' = IF r.raised THEN "raised" ELSE "returned"
    /\ UNCHANGED <<articles, sentiments, prices, correlations, max_lag_days>>
    /\ UNCHANGED node_vars

NextDetect == DetectPatterns

SpecDetect == InitDetect /\ [][NextDetect]_vars

(***************************************************************************)
(* correlation_node.py                                                     *)
(***************************************************************************)
_sentiment_direction(sentiment) ==
    IF sentiment = "positive" THEN "bullish"
    ELSE IF sentiment = "negative" THEN "bearish"
    ELSE "neutral"

\* article_by_id = {a["id"]: a for a in articles}: a later article replaces
\* an earlier one with the same id; .get returns None (here <<>>) when absent
\* variant: an unknown id falls back to the first article
ArticleByIdOrFirst(arts, article_id) ==
    LET hits == {k \in 1..Len(arts) : arts[k].id = article_id}
    IN  IF hits = {} THEN <<arts[1]>>
        ELSE <<arts[CHOOSE k \in hits : \A h \in hits : h <= k]>>

ArticleById(arts, article_id) ==
    LET hits == {k \in 1..Len(arts) : arts[k].id = article_id}
    IN  IF hits = {} THEN <<>>
        ELSE <<arts[CHOOSE k \in hits : \A h \in hits : h <= k]>>

\* variant: the lower end of the window is not tested
LagOutOfWindowNoLowerEnd(lag_days, max_lag) == lag_days > max_lag

LagOutOfWindow(lag_days, max_lag) == lag_days < 0 \/ lag_days > max_lag

neutral_factor == Rat(7, 10)
agree_factor == RInt(1)
conflict_factor == Rat(4, 10)
lag_floor == Rat(4, 10)
lag_decay == Rat(1, 10)

\* variant: agreement is tested before neutrality
DirectionFactorEqualityFirst(news_dir, pat_dir) ==
    IF news_dir = pat_dir THEN agree_factor
    ELSE IF news_dir = "neutral" \/ pat_dir = "neutral" THEN neutral_factor
    ELSE conflict_factor

DirectionFactor(news_dir, pat_dir) ==
    IF news_dir = "neutral" \/ pat_dir = "neutral" THEN neutral_factor
    ELSE IF news_dir = pat_dir THEN agree_factor
    ELSE conflict_factor

\* variant: linear decay without the floor
LagPenaltyNoFloor(lag_days) == RSub(One, RMul(RInt(lag_days), lag_decay))

LagPenalty(lag_days) ==
    RMax(lag_floor, RSub(One, RMul(RInt(lag_days), lag_decay)))

Clamp01(corr) == RMin(One, RMax(Zero, corr))

noise_floor == Rat(5, 100)

\* variant: a score equal to the floor is kept
BelowNoiseFloorStrict(corr) == RLt(corr, noise_floor)

BelowNoiseFloor(corr) == RLe(corr, noise_floor)

\* the f-string of lines 118-124, as the values it interpolates
Summary(s, art_date, p, lag_days, pat_dir) ==
    <<s.sentiment, art_date.day, s.impact_score, p.label, lag_days,
      IF pat_dir = "bullish" THEN "bullish"
      ELSE IF pat_dir = "bearish" THEN "bearish" ELSE "neutral">>

\* body of the inner loop for sentiment i and pattern j: the insight
\* appended, if any.  `pair` records the loop position <<i, j>> of the
\* iteration that appended the insight; the code does not store it.
PairInsights(sents, pats, art_date, max_lag, i, j) ==
    LET s == sents[i]
        p == pats[j]
        news_dir == _sentiment_direction(s.sentiment)
        pat_start == _parse_any_date(p.start_date)
    IN  IF ~pat_start.ok THEN <<>>
        ELSE LET lag_days == pat_start.day - art_date.day
             IN  IF LagOutOfWindow(lag_days, max_lag) THEN <<>>
                 ELSE LET base_score == RMul(s.impact_score, p.confidence)
                          pat_dir == p.direction
                          direction_factor == DirectionFactor(news_dir, pat_dir)
                          lag_penalty == LagPenalty(lag_days)
                          corr == Clamp01(RMul(RMul(base_score, direction_factor),
                                               lag_penalty))
                      IN  IF BelowNoiseFloor(corr) THEN <<>>
                          ELSE <<[article_id |-> s.article_id,
                                  pattern_name |-> p.name,
                                  correlation_confidence |-> Norm(corr),
                                  lag_days |-> lag_days,
                                  summary |-> Summary(s, art_date, p, lag_days, pat_dir),
                                  pair |-> <<i, j>>]>>

RECURSIVE PatternLoop(_, _, _, _, _, _)
PatternLoop(sents, pats, art_date, max_lag, i, j) ==
    IF j > Len(pats) THEN <<>>
    ELSE PairInsights(sents, pats, art_date, max_lag, i, j)
         \o PatternLoop(sents, pats, art_date, max_lag, i, j + 1)

\* variant: a sentiment without article ends the loop over the sentiments
RECURSIVE SentimentLoopStopsAtMissing(_, _, _, _, _)
SentimentLoopStopsAtMissing(arts, sents, pats, max_lag, i) ==
    IF i > Len(sents) THEN <<>>
    ELSE LET article == ArticleById(arts, sents[i].article_id)
             rest == SentimentLoopStopsAtMissing(arts, sents, pats, max_lag, i + 1)
         IN  IF article = <<>> THEN <<>>
             ELSE LET art_date == _parse_any_date(article[1].published_at)
                  IN  IF ~art_date.ok THEN rest
                      ELSE PatternLoop(sents, pats, art_date, max_lag, i, 1) \o rest

RECURSIVE SentimentLoop(_, _, _, _, _)
SentimentLoop(arts, sents, pats, max_lag, i) ==
    IF i > Len(sents) THEN <<>>
    ELSE LET article == ArticleById(arts, sents[i].article_id)
             rest == SentimentLoop(arts, sents, pats, max_lag, i + 1)
         IN  IF article = <<>> THEN rest
             ELSE LET art_date == _parse_any_date(article[1].published_at)
                  IN  IF ~art_date.ok THEN rest
                      ELSE PatternLoop(sents, pats, art_date, max_lag, i, 1) \o rest

\* insert x behind every element whose key is >= x's key
RECURSIVE InsertDesc(_, _)
InsertDesc(sorted, x) ==
    IF sorted = <<>> THEN <<x>>
    ELSE IF RLt(Head(sorted).correlation_confidence, x.correlation_confidence)
         THEN <<x>> \o sorted
         ELSE <<Head(sorted)>> \o InsertDesc(Tail(sorted), x)

RECURSIVE SortFrom(_, _, _)
SortFrom(ins, k, acc) ==
    IF k > Len(ins) THEN acc
    ELSE SortFrom(ins, k + 1, InsertDesc(acc, ins[k]))

\* variant: the list is returned in loop order
SortSkipped(ins) == ins

\* variant: descending, but an insight is placed in front of its equals
RECURSIVE InsertDescTiesFirst(_, _)
InsertDescTiesFirst(sorted, x) ==
    IF sorted = <<>> THEN <<x>>
    ELSE IF RLe(Head(sorted).correlation_confidence, x.correlation_confidence)
         THEN <<x>> \o sorted
         ELSE <<Head(sorted)>> \o InsertDescTiesFirst(Tail(sorted), x)

RECURSIVE SortFromTiesFirst(_, _, _)
SortFromTiesFirst(ins, k, acc) ==
    IF k > Len(ins) THEN acc
    ELSE SortFromTiesFirst(ins, k + 1, InsertDescTiesFirst(acc, ins[k]))

SortTiesReversed(ins) == SortFromTiesFirst(ins, 1, <<>>)

\* insights.sort(key=correlation_confidence, reverse=True): stable, descending
SortByConfidenceDesc(ins) == SortFrom(ins, 1, <<>>)

correlate_news_and_patterns(arts, sents, pats, max_lag) ==
    IF sents = <<>> \/ pats = <<>> THEN <<>>
    ELSE SortByConfidenceDesc(SentimentLoop(arts, sents, pats, max_lag, 1))

(***************************************************************************)
(* Specification of correlate_news_and_patterns over bounded inputs        *)
(***************************************************************************)
SentimentLabels == {"positive", "neutral", "negative"}
Directions == {"bullish", "bearish", "neutral"}
ImpactScores == {Rat(8, 10)}
MaxLagChoices == {7, 10}

Article(id, published_at) == [id |-> id, published_at |-> published_at]

ArticleList ==
    <<Article("a1", DateStr(FmtDate, 10)),
      Article("a2", DateStr(FmtDateTimeZ, 12))>>

ArticleSentiment(article_id, sentiment, impact_score) ==
    [article_id |-> article_id, sentiment |-> sentiment, impact_score |-> impact_score]

\* every label for article a1, and one sentiment for the later article a2
SentimentRecords ==
    {ArticleSentiment("a1", l, i) : l \in SentimentLabels, i \in ImpactScores}
    \cup {ArticleSentiment("a2", "negative", i) : i \in ImpactScores}

\* start dates 0 and 9 days behind article a1, -2 and 7 days behind article a2
StartDates == {DateStr(FmtDate, 10), DateStr(FmtDate, 19)}

PatternName(direction) ==
    IF direction = "bullish" THEN "bullish_breakout"
    ELSE IF direction = "bearish" THEN "bearish_breakdown"
    ELSE "sideways_range"

\* a low-confidence pattern: with impact 0.8 the base score is exactly 0.05
FaintPattern ==
    PatternSignal("strong_up_swing", "Strong Price Swing", DateStr(FmtDate, 10),
                  DateStr(FmtDate, 10), Rat(1, 16), "bullish")

PatternRecords ==
    {PatternSignal(PatternName(dir), "label", sd, sd, Rat(6, 10), dir) :
        dir \in Directions, sd \in StartDates}
    \cup {FaintPattern}

InitCorrelate ==
    /\ articles = ArticleList
    /\ sentiments \in UNION {[1..n -> SentimentRecords] : n \in 0..MaxSentiments}
    /\ patterns \in UNION {[1..n -> PatternRecords] : n \in 0..MaxPatterns}
    /\ max_lag_days \in MaxLagChoices
    /\ prices = <<>>
    /\ correlations = <<>>
    /\ pc = "correlate"
    /\ report = <<>>
    /\ keys = {}
    /\ input_keys = {}
    /\ trace = <<>>
    /\ llm_replies = <<>>

Correlate ==
    /\ pc = "correlate"
    /\ correlations' = correlate_news_and_patterns(articles, sentiments, patterns,
                                                   max_lag_days)
    /\ pc' = "returned"
    /\ UNCHANGED <<articles, sentiments, prices, patterns, max_lag_days>>
    /\ UNCHANGED node_vars

NextCorrelate == Correlate

SpecCorrelate == InitCorrelate /\ [][NextCorrelate]_vars

\* default of the parameter max_lag_days of correlate_news_and_patterns
default_max_lag_days == 7

(***************************************************************************)
(* Specification of correlate_news_and_patterns over inputs that hold      *)
(* sentiments without article, articles without a parseable date and       *)
(* patterns without a parseable start date                                 *)
(***************************************************************************)
UnparseableStr == DateStr("other", 0)

\* a1 is dated, a2 carries a date in no known format, a5 an empty date
SkipArticleList ==
    <<Article("a1", DateStr(FmtDate, 10)),
      Article("a2", UnparseableStr),
      Article("a5", EmptyStr)>>

\* a3 is the id of no article
SkipSentimentRecords ==
    {ArticleSentiment("a1", "positive", Rat(8, 10)),
     ArticleSentiment("a1", "negative", Rat(8, 10)),
     ArticleSentiment("a2", "positive", Rat(8, 10)),
     ArticleSentiment("a3", "positive", Rat(8, 10)),
     ArticleSentiment("a5", "positive", Rat(8, 10))}

SkipPatternRecords ==
    {PatternSignal("bullish_breakout", "label", DateStr(FmtDate, 10),
                   DateStr(FmtDate, 12), Rat(6, 10), "bullish"),
     PatternSignal("bearish_breakdown", "label", DateStr(FmtDateTime, 11),
                   DateStr(FmtDateTime, 12), Rat(6, 10), "bearish"),
     PatternSignal("strong_up_swing", "label", UnparseableStr,
                   DateStr(FmtDate, 12), Rat(6, 10), "bullish"),
     PatternSignal("sideways_range", "label", EmptyStr,
                   DateStr(FmtDate, 12), Rat(6, 10), "neutral")}

InitSkips ==
    /\ articles = SkipArticleList
    /\ sentiments \in UNION {[1..n -> SkipSentimentRecords] : n \in 0..MaxSentiments}
    /\ patterns \in UNION {[1..n -> SkipPatternRecords] : n \in 0..MaxPatterns}
    /\ max_lag_days = default_max_lag_days
    /\ prices = <<>>
    /\ correlations = <<>>
    /\ pc = "correlate"
    /\ report = <<>>
    /\ keys = {}
    /\ input_keys = {}
    /\ trace = <<>>
    /\ llm_replies = <<>>

NextSkips == Correlate

SpecSkips == InitSkips /\ [][NextSkips]_vars

(***************************************************************************)
(* Graph nodes: each node builds new_state = dict(state), assigns one key  *)
(* and returns new_state; an exception leaves the node without a result.   *)
(***************************************************************************)
\* state.get(key, []): the value stored under key, [] when key is absent
StateGet(key, value) == IF key \in keys THEN value ELSE <<>>

\* keys of new_state after new_state = dict(state); new_state[key] = ...
NewStateKeys(ks, key) == ks \cup {key}

\* variant: the node assigns the key on the dict it was handed
InputKeysAssignedInPlace(ks, key) == ks \cup {key}

\* keys of the input dict after the call: dict(state) is a copy, so the
\* assignment does not reach the input
InputKeysAfterCall(ks, key) == ks

NodeReturns(node, key, next) ==
    /\ keys' = NewStateKeys(keys, key)
    /\ input_keys' = InputKeysAfterCall(keys, key)
    /\ trace' = Append(trace, node)
    /\ pc' = next

NodeRaises ==
    /\ pc' = "raised"
    /\ UNCHANGED <<keys, input_keys, trace>>

\* pattern_detection.detect_patterns_node
detect_patterns_node(ps) ==
    IF ps = <<>> THEN [raised |-> FALSE, value |-> <<>>]
    ELSE detect_patterns(ps)

DetectPatternsNode ==
    /\ pc = "detect_patterns"
    /\ LET r == detect_patterns_node(StateGet("prices", prices))
       IN  IF r.raised
           THEN NodeRaises /\ UNCHANGED patterns
           ELSE /\ patterns' = r.value
                /\ NodeReturns("detect_patterns", "patterns", "correlate")
    /\ UNCHANGED <<articles, sentiments, prices, correlations, max_lag_days, report,
                   llm_replies>>

\* correlation_node.correlate_node
correlate_node(arts, sents, pats) ==
    IF arts = <<>> \/ sents = <<>> \/ pats = <<>> THEN <<>>
    ELSE correlate_news_and_patterns(arts, sents, pats, default_max_lag_days)

CorrelateNode ==
    /\ pc = "correlate"
    /\ correlations' = correlate_node(StateGet("articles", articles),
                                      StateGet("sentiments", sentiments),
                                      StateGet("patterns", patterns))
    /\ NodeReturns("correlate", "correlations", "generate_report")
    /\ UNCHANGED <<articles, sentiments, prices, patterns, max_lag_days, report,
                   llm_replies>>

(***************************************************************************)
(* sentiment_node.py and analysis_schema.py.  An LLM reply is either a     *)
(* failure of the call or of json.loads (kind "error") or a JSON object    *)
(* with the set of keys it holds; confidence, event_tags and reasoning of  *)
(* the result are carried as the single field confidence.                  *)
(***************************************************************************)
\* fields of SentimentOutput declared with Field(...): no default
required_fields == {"article_id", "sentiment", "confidence", "impact_score", "reasoning"}

\* SentimentOutput.model_validate(data) and SentimentOutput(**data) succeed
model_validate(data) ==
    /\ required_fields \subseteq data.fields
    /\ data.sentiment \in SentimentLabels
    /\ RLe(Zero, data.confidence) /\ RLe(data.confidence, One)
    /\ RLe(Zero, data.impact_score) /\ RLe(data.impact_score, One)

_clamp_01(x) == IF RLt(x, Zero) THEN Zero ELSE IF RLt(One, x) THEN One ELSE x

\* keyword arguments of the SentimentOutput built in the except branch
FallbackOutput ==
    [kind |-> "json",
     fields |-> {"sentiment", "confidence", "event_tags", "impact_score", "reasoning"},
     sentiment |-> "neutral", confidence |-> Zero, impact_score |-> Zero]

SentimentResult(article_id, struct) ==
    [article_id |-> article_id, sentiment |-> struct.sentiment,
     impact_score |-> Norm(struct.impact_score),
     confidence |-> Norm(struct.confidence)]

_analyze_single_article(article, reply) ==
    LET data == [reply EXCEPT !.impact_score = _clamp_01(@),
                              !.confidence = _clamp_01(@),
                              !.fields = @ \cup {"impact_score", "confidence"}]
        try_ok == reply.kind = "json" /\ model_validate(data)
    IN  IF try_ok
        THEN [raised |-> FALSE, value |-> <<SentimentResult(article.id, data)>>]
        ELSE IF model_validate(FallbackOutput)
        THEN [raised |-> FALSE, value |-> <<SentimentResult(article.id, FallbackOutput)>>]
        ELSE [raised |-> TRUE, value |-> <<>>]

\* the loop of analyze_sentiment_node from article i on; calls counts the
\* articles for which the LLM was asked
RECURSIVE AnalyzeLoop(_, _, _)
AnalyzeLoop(arts, replies, i) ==
    IF i > Len(arts) THEN [raised |-> FALSE, value |-> <<>>, calls |-> 0]
    ELSE LET one == _analyze_single_article(arts[i], replies[i])
         IN  IF one.raised THEN [raised |-> TRUE, value |-> <<>>, calls |-> 1]
             ELSE LET rest == AnalyzeLoop(arts, replies, i + 1)
                  IN  [raised |-> rest.raised,
                       value |-> IF rest.raised THEN <<>> ELSE one.value \o rest.value,
                       calls |-> 1 + rest.calls]

analyze_sentiment_node(arts, replies) ==
    IF arts = <<>> THEN [raised |-> FALSE, value |-> <<>>, calls |-> 0]
    ELSE AnalyzeLoop(arts, replies, 1)

LLMError ==
    [kind |-> "error", fields |-> {}, sentiment |-> "", confidence |-> Zero,
     impact_score |-> Zero]

JsonReply(fields, sentiment, confidence, impact_score) ==
    [kind |-> "json", fields |-> fields, sentiment |-> sentiment,
     confidence |-> confidence, impact_score |-> impact_score]

\* the keys the system prompt asks for
PromptedFields == {"sentiment", "confidence", "event_tags", "impact_score", "reasoning"}

\* a failed call, an answer with the prompted keys, and two answers that
\* also carry an article_id (one of them with an impact of 3)
LLMReplies ==
    {LLMError,
     JsonReply(PromptedFields, "positive", Rat(9, 10), Rat(8, 10)),
     JsonReply(PromptedFields \cup {"article_id"}, "positive", Rat(9, 10), Rat(8, 10)),
     JsonReply(PromptedFields \cup {"article_id"}, "negative", Rat(9, 10), RInt(3))}

AnalyzeSentimentNode ==
    /\ pc = "analyze_sentiment"
    /\ LET arts == StateGet("articles", articles)
       IN  \E replies \in [1..Len(arts) -> LLMReplies] :
             LET r == analyze_sentiment_node(arts, replies)
             IN  /\ llm_replies' = SubSeq(replies, 1, r.calls)
                 /\ IF r.raised
                    THEN NodeRaises /\ UNCHANGED sentiments
                    ELSE /\ sentiments' = r.value
                         /\ NodeReturns("analyze_sentiment", "sentiments", "fetch_prices")
    /\ UNCHANGED <<articles, prices, patterns, correlations, max_lag_days, report>>

(***************************************************************************)
(* news_fetcher.py and price_fetcher.py: what the sources deliver is an    *)
(* input of the run                                                        *)
(***************************************************************************)
BaseKeys == {"ticker", "start_date", "end_date"}

\* f"{ticker}-{idx}" for idx = 0, 1, ...
ArticleIds == <<"AAPL-0", "AAPL-1", "AAPL-2", "AAPL-3">>

PublishedChoices == {DateStr(FmtDateTimeZ, 10), DateStr(FmtDateTimeZ, 9)}

FetchedArticles ==
    UNION {{[idx \in 1..n |-> Article(ArticleIds[idx], pub[idx])] :
               pub \in [1..n -> PublishedChoices]} : n \in 0..MaxArticles}

FetchNewsNode ==
    /\ pc = "fetch_news"
    /\ IF BaseKeys \subseteq keys
       THEN /\ articles' \in FetchedArticles
            /\ NodeReturns("fetch_news", "articles", "analyze_sentiment")
       ELSE NodeRaises /\ UNCHANGED articles
    /\ UNCHANGED <<sentiments, prices, patterns, correlations, max_lag_days, report,
                   llm_replies>>

NodeCloses == {0, 100, 110}

NodeSeries == UNION {[1..n -> NodeCloses] : n \in 0..MaxBars}

\* fetch_price_history delivers at least one bar (the mock series when the
\* download is empty or fails)
FetchedSeries == NodeSeries \ {<<>>}

FetchPricesNode ==
    /\ pc = "fetch_prices"
    /\ IF BaseKeys \subseteq keys
       THEN /\ \E cs \in FetchedSeries : prices' = BarsOf(cs)
            /\ NodeReturns("fetch_prices", "prices", "detect_patterns")
       ELSE NodeRaises /\ UNCHANGED prices
    /\ UNCHANGED <<articles, sentiments, patterns, correlations, max_lag_days, report,
                   llm_replies>>

(***************************************************************************)
(* report_node.py: the report is modelled by the parts of the markdown     *)
(* that depend on the state: the high-level summary, the names of the      *)
(* listed patterns and the ids of the listed articles                      *)
(***************************************************************************)
\* f"{x:.2f}" of a non-negative x, as a number of hundredths (ties to even)
Format2f(x) ==
    LET q == (100 * x.n) \div x.d
        r == (100 * x.n) % x.d
    IN  IF 2 * r > x.d THEN q + 1
        ELSE IF 2 * r < x.d THEN q
        ELSE IF q % 2 = 0 THEN q ELSE q + 1

CountWhere(seq, field, v) == Cardinality({k \in 1..Len(seq) : seq[k][field] = v})

\* variant: the last insight of the list is taken
TopCorrelationLast(cs) == cs[Len(cs)]

\* top_corr = correlations[0]
TopCorrelation(cs) == cs[1]

StrongestLink(top_corr) ==
    [article_id |-> top_corr.article_id,
     pattern_name |-> top_corr.pattern_name,
     score |-> Format2f(top_corr.correlation_confidence),
     lag_days |-> top_corr.lag_days]

_format_high_level_summary(sents, pats, cors) ==
    IF sents = <<>> /\ pats = <<>>
    THEN [not_enough_data |-> TRUE, news_tone |-> "", market_tone |-> "",
          strongest_link |-> <<>>]
    ELSE LET num_pos == CountWhere(sents, "sentiment", "positive")
             num_neg == CountWhere(sents, "sentiment", "negative")
             num_neu == CountWhere(sents, "sentiment", "neutral")
             num_bull == CountWhere(pats, "direction", "bullish")
             num_bear == CountWhere(pats, "direction", "bearish")
         IN  [not_enough_data |-> FALSE,
              news_tone |-> IF num_pos > num_neg /\ num_pos > num_neu
                            THEN "overall positive"
                            ELSE IF num_neg > num_pos /\ num_neg > num_neu
                            THEN "overall negative"
                            ELSE "mixed/neutral",
              market_tone |-> IF num_bull > num_bear THEN "bullish"
                              ELSE IF num_bear > num_bull THEN "bearish"
                              ELSE "balanced",
              strongest_link |-> IF cors # <<>> THEN <<StrongestLink(TopCorrelation(cors))>>
                                 ELSE <<>>]

generate_report_markdown(arts, sents, pats, cors) ==
    [summary |-> _format_high_level_summary(sents, pats, cors),
     pattern_names |-> [k \in 1..Len(pats) |-> pats[k].name],
     article_ids |-> {arts[k].id : k \in 1..Len(arts)}]

GenerateReportNode ==
    /\ pc = "generate_report"
    /\ report' = generate_report_markdown(StateGet("articles", articles),
                                          StateGet("sentiments", sentiments),
                                          StateGet("patterns", patterns),
                                          StateGet("correlations", correlations))
    /\ NodeReturns("generate_report", "report_markdown", "END")
    /\ UNCHANGED <<articles, sentiments, prices, patterns, correlations, max_lag_days,
                   llm_replies>>

(***************************************************************************)
(* Specification of detect_patterns_node followed by correlate_node on a   *)
(* state whose upstream keys may be absent, empty or filled                *)
(***************************************************************************)
SentimentLists == UNION {[1..n -> SentimentRecords] : n \in 0..MaxSentiments}

InitNodes ==
    /\ \E present \in SUBSET {"articles", "sentiments", "prices"} :
          /\ keys = BaseKeys \cup present
          /\ articles \in (IF "articles" \in present THEN {<<>>, ArticleList} ELSE {<<>>})
          /\ sentiments \in (IF "sentiments" \in present THEN SentimentLists ELSE {<<>>})
          /\ \E cs \in (IF "prices" \in present THEN NodeSeries ELSE {<<>>}) :
                prices = BarsOf(cs)
    /\ patterns = <<>>
    /\ correlations = <<>>
    /\ max_lag_days = default_max_lag_days
    /\ report = <<>>
    /\ input_keys = keys
    /\ trace = <<>>
    /\ llm_replies = <<>>
    /\ pc = "detect_patterns"

NextNodes == DetectPatternsNode \/ CorrelateNode

SpecNodes == InitNodes /\ [][NextNodes]_vars

(***************************************************************************)
(* graph.py: the compiled workflow, started by main.run_example with       *)
(* ticker, start_date and end_date in the state                            *)
(***************************************************************************)
Init ==
    /\ articles = <<>>
    /\ sentiments = <<>>
    /\ prices = <<>>
    /\ patterns = <<>>
    /\ correlations = <<>>
    /\ max_lag_days = default_max_lag_days
    /\ report = <<>>
    /\ keys = BaseKeys
    /\ input_keys = BaseKeys
    /\ trace = <<>>
    /\ llm_replies = <<>>
    /\ pc = "fetch_news"

Next ==
    \/ FetchNewsNode
    \/ AnalyzeSentimentNode
    \/ FetchPricesNode
    \/ DetectPatternsNode
    \/ CorrelateNode
    \/ GenerateReportNode

Spec == Init /\ [][Next]_vars

(***************************************************************************)
(* Properties                                                              *)
(***************************************************************************)
Returned == pc = "returned"

Conf(k) == correlations[k].correlation_confidence
SentimentOf(c) == sentiments[c.pair[1]]
PatternOf(c) == patterns[c.pair[2]]

\* loop position a is visited before loop position b
VisitedBefore(a, b) == a[1] < b[1] \/ (a[1] = b[1] /\ a[2] < b[2])

\* the article a sentiment refers to, and the lag of a pair, read off the inputs
HasArticle(i) == \E k \in 1..Len(articles) : articles[k].id = sentiments[i].article_id
ArticleOf(i) == articles[CHOOSE k \in 1..Len(articles) :
                             articles[k].id = sentiments[i].article_id]
Parseable(s) == s.fmt \in {FmtDate, FmtDateTimeZ, FmtDateTime}
PairDated(i, j) ==
    /\ HasArticle(i)
    /\ Parseable(ArticleOf(i).published_at)
    /\ Parseable(patterns[j].start_date)
PairLag(i, j) == patterns[j].start_date.day - ArticleOf(i).published_at.day
Pairs == (1..Len(sentiments)) \X (1..Len(patterns))
Emitted(i, j) == \E k \in 1..Len(correlations) : correlations[k].pair = <<i, j>>

NewsDirection(label) ==
    CASE label = "positive" -> "bullish"
      [] label = "negative" -> "bearish"
      [] label = "neutral" -> "neutral"

\* max(0.4, 1.0 - 0.1 * lag) written out by cases
DecayOf(lag) == IF lag <= 6 THEN [n |-> 10 - lag, d |-> 10] ELSE [n |-> 2, d |-> 5]

ClampUnit(x) == IF RLt(RInt(1), x) THEN RInt(1)
                ELSE IF RLt(x, RInt(0)) THEN RInt(0) ELSE x

\* the factor as amended: 0.7 whenever a side is neutral, else 1.0 / 0.4
FactorTable(news, pat) ==
    CASE news = "neutral" \/ pat = "neutral" -> Rat(7, 10)
      [] news = "bullish" /\ pat = "bullish" -> RInt(1)
      [] news = "bearish" /\ pat = "bearish" -> RInt(1)
      [] news = "bullish" /\ pat = "bearish" -> Rat(2, 5)
      [] news = "bearish" /\ pat = "bullish" -> Rat(2, 5)

\* the factor as claimed: 1.0 whenever the directions are equal
FactorAsClaimed(news, pat) ==
    IF news = pat THEN RInt(1)
    ELSE IF news = "neutral" \/ pat = "neutral" THEN Rat(7, 10)
    ELSE Rat(2, 5)

\* impact_score * pattern.confidence * lag penalty of an emitted insight
Undirected(c) ==
    RMul(RMul(SentimentOf(c).impact_score, PatternOf(c).confidence),
         DecayOf(c.lag_days))

\* C1: the list returned by correlate_news_and_patterns is sorted
\* non-increasing by correlation_confidence.
C1_SortedNonIncreasing ==
    Returned =>
        \A k \in 1..(Len(correlations) - 1) : RLe(Conf(k + 1), Conf(k))

\* a returned list in which the sort moved a later pair in front of an earlier one
C1_Witness ==
    /\ Returned
    /\ Len(correlations) >= 3
    /\ \E k, l \in 1..Len(correlations) :
          /\ k < l
          /\ RLt(Conf(l), Conf(k))
          /\ VisitedBefore(correlations[l].pair, correlations[k].pair)

\* C2 (as amended): the direction factor applied to a pair is 0.7 whenever
\* the news direction or the pattern direction is neutral (both neutral
\* included), 1.0 when both are bullish or both bearish, 0.4 when one is
\* bullish and the other bearish.
C2_DirectionFactorAmended ==
    Returned =>
        \A k \in 1..Len(correlations) :
            LET c == correlations[k]
            IN  RLe(Undirected(c), RInt(1)) =>
                    REq(c.correlation_confidence,
                        RMul(Undirected(c),
                             FactorTable(NewsDirection(SentimentOf(c).sentiment),
                                         PatternOf(c).direction)))

\* an insight for a neutral sentiment and a neutral pattern (factor 0.7,
\* score 0.336) next to one for agreeing non-neutral directions (score 0.48)
C2_Witness ==
    /\ Returned
    /\ \E k \in 1..Len(correlations) :
          /\ SentimentOf(correlations[k]).sentiment = "neutral"
          /\ PatternOf(correlations[k]).direction = "neutral"
          /\ correlations[k].lag_days = 0
          /\ Conf(k) = Rat(336, 1000)
    /\ \E k \in 1..Len(correlations) :
          /\ SentimentOf(correlations[k]).sentiment = "negative"
          /\ PatternOf(correlations[k]).direction = "bearish"
          /\ Conf(k) = Rat(48, 100)

\* C2 (as claimed): the direction factor is 1.0 whenever the news direction
\* equals the pattern direction, 0.7 if otherwise either side is neutral,
\* 0.4 when one is bullish and the other bearish.
C2_DirectionFactorAsClaimed ==
    Returned =>
        \A k \in 1..Len(correlations) :
            LET c == correlations[k]
            IN  RLe(Undirected(c), RInt(1)) =>
                    REq(c.correlation_confidence,
                        RMul(Undirected(c),
                             FactorAsClaimed(NewsDirection(SentimentOf(c).sentiment),
                                             PatternOf(c).direction)))

DayOf(s) == _parse_any_date(s).day

IsSwing(p) == p.name \in {"strong_up_swing", "strong_down_swing"}
IsTrend(p) == p.name \in {"bullish_breakout", "bearish_breakdown", "sideways_range"}

\* C3: every emitted PatternSignal has start_date <= end_date, a swing
\* signal starting at the earlier and ending at the later of the two extrema.
C3_StartNotAfterEnd ==
    Returned =>
        \A k \in 1..Len(patterns) :
            DayOf(patterns[k].start_date) <= DayOf(patterns[k].end_date)

\* C4: detect_patterns never raises on bars with non-negative closes, a
\* zero first close, minimum close or all-zero series included.
C4_NeverRaises == pc # "raised"

\* C5: every emitted insight has lag_days = pattern start date minus
\* article publish date in days with 0 <= lag_days <= max_lag_days, and a
\* pair whose lag is negative or exceeds max_lag_days emits no insight.
C5_LagWindow ==
    Returned =>
        /\ \A k \in 1..Len(correlations) :
              LET c == correlations[k]
              IN  /\ PairDated(c.pair[1], c.pair[2])
                  /\ c.lag_days = PairLag(c.pair[1], c.pair[2])
                  /\ 0 <= c.lag_days
                  /\ c.lag_days <= max_lag_days
        /\ \A q \in Pairs :
              (PairDated(q[1], q[2])
                 /\ (PairLag(q[1], q[2]) < 0 \/ PairLag(q[1], q[2]) > max_lag_days))
              => ~Emitted(q[1], q[2])

\* under the default window of 7 days: a pair 9 days apart and a pair with
\* the pattern before the news are dropped, a pair 7 days apart is emitted
C5_Witness ==
    /\ Returned
    /\ max_lag_days = 7
    /\ \E q \in Pairs : PairDated(q[1], q[2]) /\ PairLag(q[1], q[2]) = 9
                        /\ ~Emitted(q[1], q[2])
    /\ \E q \in Pairs : PairDated(q[1], q[2]) /\ PairLag(q[1], q[2]) < 0
                        /\ ~Emitted(q[1], q[2])
    /\ \E k \in 1..Len(correlations) : correlations[k].lag_days = 7

\* the score of a dated pair inside the window, before the noise floor
PairScore(i, j) ==
    ClampUnit(RMul(RMul(RMul(sentiments[i].impact_score, patterns[j].confidence),
                        FactorTable(NewsDirection(sentiments[i].sentiment),
                                    patterns[j].direction)),
                   DecayOf(PairLag(i, j))))

InWindow(i, j) ==
    /\ PairDated(i, j)
    /\ PairLag(i, j) >= 0
    /\ PairLag(i, j) <= max_lag_days

\* C6: every emitted insight has correlation_confidence in [0, 1] and
\* strictly above 0.05; a pair scoring exactly 0.05 or less is discarded.
C6_ConfidenceRange ==
    Returned =>
        /\ \A k \in 1..Len(correlations) :
              /\ RLe(RInt(0), Conf(k))
              /\ RLe(Conf(k), RInt(1))
              /\ RLt(Rat(1, 20), Conf(k))
        /\ \A q \in Pairs :
              (InWindow(q[1], q[2]) /\ RLe(PairScore(q[1], q[2]), Rat(1, 20)))
              => ~Emitted(q[1], q[2])

\* a pair scoring exactly 0.05 and a pair scoring less, both discarded,
\* beside an emitted insight
C6_Witness ==
    /\ Returned
    /\ \E q \in Pairs : InWindow(q[1], q[2]) /\ REq(PairScore(q[1], q[2]), Rat(1, 20))
                        /\ ~Emitted(q[1], q[2])
    /\ \E q \in Pairs : InWindow(q[1], q[2]) /\ RLt(PairScore(q[1], q[2]), Rat(1, 20))
                        /\ ~Emitted(q[1], q[2])
    /\ correlations # <<>>

\* C7: correlation_confidence = clamp(impact_score * pattern.confidence *
\* direction_factor * max(0.4, 1.0 - 0.1 * lag_days), 0, 1); impact 0.8,
\* confidence 0.6, lag 0 gives 0.48 for positive/bullish and 0.192 for
\* positive/bearish.
C7_ConfidenceFormula ==
    Returned =>
        \A k \in 1..Len(correlations) :
            LET c == correlations[k]
                s == SentimentOf(c)
                p == PatternOf(c)
            IN  /\ REq(c.correlation_confidence, PairScore(c.pair[1], c.pair[2]))
                /\ (s.impact_score = Rat(8, 10) /\ p.confidence = Rat(6, 10)
                      /\ c.lag_days = 0 /\ s.sentiment = "positive")
                   => /\ p.direction = "bullish"
                         => c.correlation_confidence = Rat(48, 100)
                      /\ p.direction = "bearish"
                         => c.correlation_confidence = Rat(192, 1000)

\* insights at lag 0 (no penalty) and at lag 7 and 9 (the 0.4 floor), the
\* 0.48 and the 0.192 case among them
C7_Witness ==
    /\ Returned
    /\ \E k \in 1..Len(correlations) : Conf(k) = Rat(48, 100)
                                       /\ correlations[k].lag_days = 0
    /\ \E k \in 1..Len(correlations) : Conf(k) = Rat(192, 1000)
                                       /\ correlations[k].lag_days = 0
    /\ \E k \in 1..Len(correlations) : correlations[k].lag_days >= 7

\* C8: insights of equal correlation_confidence keep the relative order in
\* which their pairs were visited (sentiments outer, patterns inner).
C8_TiesKeepLoopOrder ==
    Returned =>
        \A k, l \in 1..Len(correlations) :
            (k < l /\ Conf(k) = Conf(l))
            => VisitedBefore(correlations[k].pair, correlations[l].pair)

\* two equal insights placed behind an insight that was visited after them
C8_Witness ==
    /\ Returned
    /\ \E k, l, m \in 1..Len(correlations) :
          /\ k < l /\ l < m
          /\ Conf(l) = Conf(m)
          /\ RLt(Conf(l), Conf(k))
          /\ VisitedBefore(correlations[l].pair, correlations[k].pair)

\* total_return as the quotient (last - first) / first, 0 when first is 0
TotalReturn ==
    IF prices[1].close = 0 THEN RInt(0)
    ELSE Rat(prices[Len(prices)].close - prices[1].close, prices[1].close)

TrendIndices == {k \in 1..Len(patterns) : IsTrend(patterns[k])}
SwingIndices == {k \in 1..Len(patterns) : IsSwing(patterns[k])}

ExpectedTrend ==
    LET r == TotalReturn
        five == RMul(RAbs(r), RInt(5))
        scaled == IF RLe(RInt(1), five) THEN RInt(1) ELSE five
    IN  IF r.n * 100 >= 5 * r.d
        THEN [name |-> "bullish_breakout", direction |-> "bullish", confidence |-> scaled]
        ELSE IF r.n * 100 <= -5 * r.d
        THEN [name |-> "bearish_breakdown", direction |-> "bearish", confidence |-> scaled]
        ELSE [name |-> "sideways_range", direction |-> "neutral", confidence |-> Rat(3, 5)]

\* C9: a series of at least 2 bars yields exactly one trend signal, chosen
\* by total_return (>= +0.05 bullish_breakout, <= -0.05 bearish_breakdown,
\* otherwise sideways_range with confidence 0.6), with confidence
\* min(1.0, |total_return| * 5) and spanning the first and last bar dates.
C9_OneTrendSignal ==
    (pc # "detect" /\ Len(prices) >= 2) =>
        /\ Cardinality(TrendIndices) = 1
        /\ \A k \in TrendIndices :
              /\ patterns[k].name = ExpectedTrend.name
              /\ patterns[k].direction = ExpectedTrend.direction
              /\ REq(patterns[k].confidence, ExpectedTrend.confidence)
              /\ patterns[k].start_date = prices[1].date
              /\ patterns[k].end_date = prices[Len(prices)].date

\* C10: detect_patterns returns at most 2 signals, at most one trend and at
\* most one swing signal, the trend signal first when both are present.
C10_AtMostTrendThenSwing ==
    /\ Len(patterns) <= 2
    /\ Cardinality(TrendIndices) <= 1
    /\ Cardinality(SwingIndices) <= 1
    /\ \A k \in 1..Len(patterns) : IsTrend(patterns[k]) \/ IsSwing(patterns[k])
    /\ (TrendIndices # {} /\ SwingIndices # {})
       => (IsTrend(patterns[1]) /\ IsSwing(patterns[2]))

\* a returned list holding a trend signal and a swing signal
C10_Witness ==
    /\ Returned
    /\ Len(prices) = MaxBars
    /\ TrendIndices # {}
    /\ SwingIndices # {}

\* C11: for a series of length 0 or 1, detect_patterns returns an empty
\* sequence and does not raise.
C11_ShortSeriesEmpty ==
    (pc # "detect" /\ Len(prices) < 2) => (pc = "returned" /\ patterns = <<>>)

\* a call on a single bar has returned
C11_Witness ==
    /\ pc = "returned"
    /\ Len(prices) = 1
    /\ patterns = <<>>

\* first index of the lowest close and first index of the highest close
FirstLowIndex ==
    CHOOSE i \in 1..Len(prices) :
        /\ \A j \in 1..Len(prices) : prices[i].close <= prices[j].close
        /\ \A j \in 1..(i - 1) : prices[j].close # prices[i].close

FirstHighIndex ==
    CHOOSE i \in 1..Len(prices) :
        /\ \A j \in 1..Len(prices) : prices[j].close <= prices[i].close
        /\ \A j \in 1..(i - 1) : prices[j].close # prices[i].close

\* (high - low) / low > 0.08, written without the division
SwingAboveThreshold ==
    (prices[FirstHighIndex].close - prices[FirstLowIndex].close) * 100
        > 8 * prices[FirstLowIndex].close

SwingExpected ==
    /\ prices # <<>>
    /\ FirstLowIndex # FirstHighIndex
    /\ SwingAboveThreshold

\* min(1.0, |swing_return| * 4) with swing_return = (high - low) / low
ExpectedSwingConfidence ==
    LET low == prices[FirstLowIndex].close
        high == prices[FirstHighIndex].close
    IN  IF 4 * (high - low) >= low THEN RInt(1) ELSE Rat(4 * (high - low), low)

\* C12: a swing signal is emitted exactly when the first index of the
\* minimum close differs from the first index of the maximum close and
\* (max - min) / min exceeds 0.08; it is strong_up_swing / bullish when the
\* minimum comes first and strong_down_swing / bearish otherwise, with
\* confidence min(1.0, |swing_return| * 4).
C12_SwingIffThreshold ==
    (pc # "detect") =>
        /\ (SwingIndices # {}) <=> SwingExpected
        /\ \A k \in SwingIndices :
              /\ patterns[k].name = (IF FirstLowIndex < FirstHighIndex
                                     THEN "strong_up_swing" ELSE "strong_down_swing")
              /\ patterns[k].direction = (IF FirstLowIndex < FirstHighIndex
                                          THEN "bullish" ELSE "bearish")
              /\ REq(patterns[k].confidence, ExpectedSwingConfidence)

\* the same statement on the calls that return
C12_SwingIffWhenReturned == (pc = "returned") => C12_SwingIffThreshold

\* one of the upstream inputs is empty or absent
EmptyUpstream ==
    \/ StateGet("articles", articles) = <<>>
    \/ StateGet("sentiments", sentiments) = <<>>
    \/ StateGet("prices", prices) = <<>>

\* C13: when articles, sentiments or prices is empty or absent from the
\* state, running detect_patterns_node and then correlate_node never
\* raises and leaves correlations = [], whatever the other inputs hold.
C13_EmptyUpstreamNoInsights ==
    EmptyUpstream =>
        /\ pc # "raised"
        /\ ("correlations" \in keys => correlations = <<>>)

\* the same statement on the runs in which detect_patterns_node returns
C13_EmptyUpstreamWhenReturned ==
    EmptyUpstream => ("correlations" \in keys => correlations = <<>>)

\* a sentiment the loop skips: no article with its id, or an article whose
\* published_at matches none of the three formats
OffendingSentiment(s) ==
    \/ \A k \in 1..Len(articles) : articles[k].id # s.article_id
    \/ \E k \in 1..Len(articles) :
          /\ articles[k].id = s.article_id
          /\ \A h \in 1..Len(articles) : articles[h].id = s.article_id => h <= k
          /\ articles[k].published_at.fmt \notin {FmtDate, FmtDateTimeZ, FmtDateTime}

\* a pattern the loop skips: its start_date matches none of the formats
OffendingPattern(p) == p.start_date.fmt \notin {FmtDate, FmtDateTimeZ, FmtDateTime}

KeptSentiment(s) == ~OffendingSentiment(s)
KeptPattern(p) == ~OffendingPattern(p)

\* the fields of the insights, without their loop position
Fields(cs) ==
    [k \in 1..Len(cs) |->
        [article_id |-> cs[k].article_id,
         pattern_name |-> cs[k].pattern_name,
         correlation_confidence |-> cs[k].correlation_confidence,
         lag_days |-> cs[k].lag_days,
         summary |-> cs[k].summary]]

\* C14: a sentiment without matching article, an article whose date matches
\* no format and a pattern whose start_date cannot be parsed yield no
\* insight and no exception, and the insights returned are exactly those
\* returned when the offending sentiments and patterns are removed.
C14_OffendersAreSkipped ==
    (pc # "correlate") =>
        /\ pc = "returned"
        /\ \A k \in 1..Len(correlations) :
              /\ KeptSentiment(SentimentOf(correlations[k]))
              /\ KeptPattern(PatternOf(correlations[k]))
        /\ Fields(correlations)
             = Fields(correlate_news_and_patterns(articles,
                                                  SelectSeq(sentiments, KeptSentiment),
                                                  SelectSeq(patterns, KeptPattern),
                                                  max_lag_days))

\* offenders come first in both lists and an insight is still returned
C14_Witness ==
    /\ Returned
    /\ Len(sentiments) = MaxSentiments
    /\ Len(patterns) = MaxPatterns
    /\ OffendingSentiment(sentiments[1])
    /\ OffendingPattern(patterns[1])
    /\ correlations # <<>>

\* C15: every insight names a pattern of the input list, and its
\* article_id is the id of an input article and the article_id of an
\* input sentiment.
C15_InsightsReferToInputs ==
    \A k \in 1..Len(correlations) :
        /\ \E j \in 1..Len(patterns) : patterns[j].name = correlations[k].pattern_name
        /\ \E a \in 1..Len(articles) : articles[a].id = correlations[k].article_id
        /\ \E i \in 1..Len(sentiments) :
              sentiments[i].article_id = correlations[k].article_id

\* insights were returned although one sentiment names no article
C15_Witness ==
    /\ Returned
    /\ correlations # <<>>
    /\ \E i \in 1..Len(sentiments) :
          \A a \in 1..Len(articles) : articles[a].id # sentiments[i].article_id

\* fetch_news has completed and analyze_sentiment is no longer pending
AnalysisAttempted == Len(trace) >= 1 /\ pc # "analyze_sentiment"

\* the call failed, or the answer does not fit the SentimentOutput schema
ReplyRejected(reply) ==
    \/ reply.kind = "error"
    \/ "article_id" \notin reply.fields
    \/ "sentiment" \notin reply.fields
    \/ "reasoning" \notin reply.fields
    \/ reply.sentiment \notin SentimentLabels

OnePerArticleInOrder ==
    /\ Len(trace) >= 2
    /\ Len(sentiments) = Len(articles)
    /\ \A k \in 1..Len(articles) : sentiments[k].article_id = articles[k].id

\* C17: when the LLM call, the JSON parsing or the schema validation fails,
\* _analyze_single_article does not raise but returns the neutral fallback
\* (confidence 0.0, impact_score 0.0) with the article's id, so that
\* analyze_sentiment_node yields one ArticleSentiment per article, in order.
C17_FallbackOnFailure ==
    AnalysisAttempted =>
        /\ OnePerArticleInOrder
        /\ \A k \in 1..Len(articles) :
              ReplyRejected(llm_replies[k]) =>
                  /\ sentiments[k].sentiment = "neutral"
                  /\ REq(sentiments[k].confidence, Zero)
                  /\ REq(sentiments[k].impact_score, Zero)

\* the runs in which every answer fits the schema
C17_OnePerArticleWhenAccepted ==
    (AnalysisAttempted /\ \A k \in 1..Len(llm_replies) : ~ReplyRejected(llm_replies[k]))
        => OnePerArticleInOrder

\* the order of the edges of the graph, from the entry point to END
NodeOrder ==
    <<"fetch_news", "analyze_sentiment", "fetch_prices", "detect_patterns",
      "correlate", "generate_report">>

\* the completed nodes are the first nodes of NodeOrder, each once, in order
TraceFollowsOrder ==
    /\ Len(trace) <= Len(NodeOrder)
    /\ \A k \in 1..Len(trace) : trace[k] = NodeOrder[k]

Stopped == pc \in {"END", "raised"}

\* C18: the workflow runs fetch_news, analyze_sentiment, fetch_prices,
\* detect_patterns, correlate and generate_report exactly once each, in
\* this order, and then reaches END; no node runs before its predecessors
\* have completed and no node is entered twice.
C18_SixNodesOnceInOrder ==
    /\ TraceFollowsOrder
    /\ Stopped => (pc = "END" /\ trace = NodeOrder)

\* the ordering half of the statement: correlate only after analyze_sentiment
\* and detect_patterns, generate_report only after correlate, no node twice
C18_OrderOfCompletedNodes ==
    /\ TraceFollowsOrder
    /\ pc = "END" => trace = NodeOrder

\* the key a node writes
WrittenKey(node) ==
    CASE node = "fetch_news" -> "articles"
      [] node = "analyze_sentiment" -> "sentiments"
      [] node = "fetch_prices" -> "prices"
      [] node = "detect_patterns" -> "patterns"
      [] node = "correlate" -> "correlations"
      [] node = "generate_report" -> "report_markdown"

\* a step in which the node at pc returns: the returned state has the keys
\* of the input plus the node's own key, every other value is the input's,
\* and the input dict still has the keys it had
NodeWritesOnlyItsKey ==
    (pc' # pc /\ pc' # "raised") =>
        /\ WrittenKey(pc) \notin keys
        /\ keys' = keys \cup {WrittenKey(pc)}
        /\ input_keys' = keys
        /\ WrittenKey(pc) # "articles" => articles' = articles
        /\ WrittenKey(pc) # "sentiments" => sentiments' = sentiments
        /\ WrittenKey(pc) # "prices" => prices' = prices
        /\ WrittenKey(pc) # "patterns" => patterns' = patterns
        /\ WrittenKey(pc) # "correlations" => correlations' = correlations
        /\ WrittenKey(pc) # "report_markdown" => report' = report

\* C19: each node returns a new state that differs from its input in
\* exactly one key (articles, sentiments, prices, patterns, correlations,
\* report_markdown) and leaves the input state unmodified, so every key
\* written by an earlier node reaches the final state unchanged.
C19_NodesWriteOneKey == [][NodeWritesOnlyItsKey]_vars

\* a finished run: all six keys were written, and the dict handed to
\* generate_report still lacks report_markdown
C19_Witness ==
    /\ pc = "END"
    /\ keys = BaseKeys \cup {WrittenKey(NodeOrder[k]) : k \in 1..Len(NodeOrder)}
    /\ input_keys = keys \ {"report_markdown"}
    /\ correlations # <<>>

\* insight k has the greatest correlation_confidence of the run
IsMaximal(k) ==
    \A h \in 1..Len(correlations) :
        RLe(correlations[h].correlation_confidence, correlations[k].correlation_confidence)

\* the line names insight k: its article, its pattern, its lag and its
\* confidence to two decimals
LinkNames(link, k) ==
    /\ link.article_id = correlations[k].article_id
    /\ link.pattern_name = correlations[k].pattern_name
    /\ link.lag_days = correlations[k].lag_days
    /\ LET c == correlations[k].correlation_confidence
           diff == 100 * c.n - link.score * c.d
       IN  2 * IAbs(diff) <= c.d

\* C20: when correlations is not empty, the 'Strongest link' line of the
\* report names an insight of maximal correlation_confidence among those
\* correlate_node produced in the run; when it is empty the report has no
\* such line; generate_report does not raise.
C20_StrongestLinkIsMaximum ==
    /\ (pc = "raised") => Len(trace) < 5
    /\ (pc = "END") =>
          LET link == report.summary.strongest_link
          IN  /\ (correlations = <<>>) => (link = <<>>)
              /\ (correlations # <<>>) =>
                    /\ Len(link) = 1
                    /\ \E k \in 1..Len(correlations) : LinkNames(link[1], k) /\ IsMaximal(k)

\* a report over insights of different confidence
C20_Witness ==
    /\ pc = "END"
    /\ Len(correlations) >= 2
    /\ RLt(correlations[Len(correlations)].correlation_confidence,
           correlations[1].correlation_confidence)
    /\ Len(report.summary.strongest_link) = 1

====
